---- MODULE Spec2Model ----
(***************************************************************************)
(* gardenctl-v2 configuration: pkg/config/config.go (Config, Garden,       *)
(* LoadFromFile, SaveToFile, GardenName, MatchPattern, AddGarden) and the  *)
(* add-garden command that calls AddGarden.                                *)
(*                                                                         *)
(* Strings.  A Go string is a TLA+ string.  A string that the code takes   *)
(* apart (a ConfigMap value split on "\n", a target matched by a regular   *)
(* expression) is given as the sequence of its runs, e.g. <<"a","\n","b">> *)
(* for "a\nb"; Cat glues runs back into the string.                        *)
(***************************************************************************)
EXTENDS Integers, Sequences, FiniteSets, TLC

VARIABLES config, pc, file, last, synced, saved

vars == <<config, pc, file, last, synced, saved>>

(***************************************************************************)
(* Bounds of the model.                                                    *)
(***************************************************************************)
MaxValueLen == 3
MaxPatterns == 2
MaxInputLen == 3

Procs == {"p1", "p2"}
Names == {"a", "b"}

NL == "\n"

(***************************************************************************)
(* Data.                                                                   *)
(***************************************************************************)
Garden(name, identity, context, kubeconfig, aliases) ==
    [Name |-> name, Identity |-> identity, Context |-> context,
     Kubeconfig |-> kubeconfig, Aliases |-> aliases]

Config(gardens, matchPatterns) ==
    [Gardens |-> gardens, MatchPatterns |-> matchPatterns]

\* tm := &PatternMatch{}
NoMatch == [Garden |-> "", Project |-> "", Namespace |-> "", Shoot |-> ""]

\* config := &Config{}
ZeroConfig == Config(<<>>, <<>>)

\* var clusterConfig *v1.ConfigMap, never assigned
NilConfigMap == [IsNil |-> TRUE, Data |-> <<>>]

ConfigMap(data) == [IsNil |-> FALSE, Data |-> data]

\* Go map lookup: the zero value "" (no runs) when the key is absent
Lookup(data, key) == IF key \in DOMAIN data THEN data[key] ELSE <<>>

(***************************************************************************)
(* String helpers.                                                         *)
(***************************************************************************)
RECURSIVE Cat(_)
Cat(runs) == IF runs = <<>> THEN "" ELSE Head(runs) \o Cat(Tail(runs))

RECURSIVE Split(_)
\* strings.Split(s, "\n"): always at least one element
Split(runs) ==
    IF \A i \in 1..Len(runs) : runs[i] # NL
    THEN <<Cat(runs)>>
    ELSE LET i == CHOOSE k \in 1..Len(runs) :
                      runs[k] = NL /\ \A j \in 1..(k-1) : runs[j] # NL
         IN <<Cat(SubSeq(runs, 1, i-1))>> \o Split(SubSeq(runs, i+1, Len(runs)))

contains(values, value) == \E i \in 1..Len(values) : values[i] = value

RECURSIVE removeTrailingEmptyStr(_)
\* a trim that drops every empty string at the end, not just one
removeTrailingEmptyStr(strSlice) ==
    IF Len(strSlice) > 0 /\ strSlice[Len(strSlice)] = ""
    THEN removeTrailingEmptyStr(SubSeq(strSlice, 1, Len(strSlice) - 1))
    ELSE strSlice

removeLastStrIfEmpty(strSlice) ==
    IF Len(strSlice) > 0 /\ strSlice[Len(strSlice)] = ""
    THEN SubSeq(strSlice, 1, Len(strSlice) - 1)
    ELSE strSlice

\* a deduplication that only drops a string equal to the one before it
RECURSIVE removeAdjacentDuplicateStr(_)
removeAdjacentDuplicateStr(strSlice) ==
    IF Len(strSlice) < 2 THEN strSlice
    ELSE IF strSlice[1] = strSlice[2]
         THEN removeAdjacentDuplicateStr(Tail(strSlice))
         ELSE <<Head(strSlice)>> \o removeAdjacentDuplicateStr(Tail(strSlice))

RECURSIVE removeDuplicateStrFrom(_, _)
removeDuplicateStrFrom(list, rest) ==
    IF rest = <<>> THEN list
    ELSE IF contains(list, Head(rest))
         THEN removeDuplicateStrFrom(list, Tail(rest))
         ELSE removeDuplicateStrFrom(Append(list, Head(rest)), Tail(rest))

removeDuplicateStr(strSlice) == removeDuplicateStrFrom(<<>>, strSlice)

(***************************************************************************)
(* Inputs of the operations.                                               *)
(***************************************************************************)
RECURSIVE SeqsUpTo(_, _)
\* all sequences over S of length at most n
SeqsUpTo(S, n) ==
    IF n = 0 THEN {<<>>}
    ELSE LET shorter == SeqsUpTo(S, n - 1)
         IN shorter \cup {Append(s, x) : s \in shorter, x \in S}

\* the values of a ConfigMap key: lines of at most one run each, joined and
\* possibly ended by "\n", of at most n runs in all
Values(lines, n) ==
    {s \in SeqsUpTo(lines \cup {NL}, n) :
        \A i \in 1..(Len(s) - 1) : s[i] = NL \/ s[i + 1] = NL}

AliasLines == {"a", "b"}
PatternLines == {"p1", "p2"}
IdentityValues == {<<>>, <<"id1">>}

\* ConfigMap.Data with the three keys AddGarden reads; a key whose value
\* would be "" is left out of the map
MkData(al, id, mp) ==
    LET keys == (IF al = <<>> THEN {} ELSE {"aliases"})
                \cup (IF id = <<>> THEN {} ELSE {"identity"})
                \cup (IF mp = <<>> THEN {} ELSE {"global.matchPatterns"})
    IN [k \in keys |-> CASE k = "aliases" -> al
                         [] k = "identity" -> id
                         [] OTHER -> mp]

\* short values under several keys
ShortDataMaps ==
    {MkData(al, id, mp) : al \in {<<>>, <<"b">>}, id \in IdentityValues,
                          mp \in {<<>>, <<"p1">>}}

\* every key set, and no key set
FullData == MkData(<<"b">>, <<"id1">>, <<"p1">>)
NoData == MkData(<<>>, <<>>, <<>>)

\* two aliases and a newline after the last one: "a\nb\n"
EndedData == MkData(<<"a", NL, "b", NL>>, <<>>, <<>>)

\* one long value under one key, or short values under several keys
DataMaps ==
    {MkData(al, <<>>, <<>>) : al \in Values(AliasLines, MaxValueLen)}
    \cup {MkData(<<>>, <<>>, mp) : mp \in Values(PatternLines, MaxValueLen)}
    \cup ShortDataMaps
    \cup {EndedData}

\* kubeconfigFile and contextName of a call: the add-garden command passes an
\* expanded path and the --use-context option, another caller may pass a ~ path
CommandArgs == [kube |-> "/home/u/kc1", ctx |-> ""]
OtherArgs == [kube |-> "~/kc2", ctx |-> "dev"]

\* the calls of AddGarden: clusterConfig is nil when the command ran with the
\* download disabled, otherwise a ConfigMap
AddGardenCalls ==
    {[name |-> n, args |-> CommandArgs, cm |-> cm] :
        n \in Names, cm \in {NilConfigMap} \cup {ConfigMap(d) : d \in DataMaps}}
    \cup {[name |-> n, args |-> OtherArgs, cm |-> cm] :
        n \in Names, cm \in {NilConfigMap, ConfigMap(NoData), ConfigMap(FullData)}}

\* what the file system does to an open and to a write
IOOutcomes == {"ok", "openFailed", "writeFailed"}

(***************************************************************************)
(* ConfigStore: LoadFromFile and SaveToFile.                               *)
(***************************************************************************)
\* homedir.Expand on the paths of the model
Expand(path) == IF path = "~/kc2" THEN "/home/u/kc2" ELSE path

ExpandGardens(gardens) ==
    [i \in 1..Len(gardens) |->
        [gardens[i] EXCEPT !.Kubeconfig = Expand(gardens[i].Kubeconfig)]]

\* a load that takes every file for an empty one
LoadedConfigUndecoded(f) == ZeroConfig

\* the Config LoadFromFile returns for the persisted document f
LoadedConfig(f) == Config(ExpandGardens(f.Gardens), f.MatchPatterns)

\* a Save that patches the new entry into the file instead of rewriting it
SavedFilePatch(cfg, old, io) ==
    CASE io = "ok" -> Config(Append(old.Gardens, cfg.Gardens[Len(cfg.Gardens)]),
                             cfg.MatchPatterns)
      [] io = "openFailed" -> old
      [] OTHER -> ZeroConfig

\* the persisted document after SaveToFile(cfg): O_TRUNC empties the file
\* once it is open, Encode then writes the whole Config
SavedFile(cfg, old, io) ==
    CASE io = "ok" -> cfg
      [] io = "openFailed" -> old
      [] OTHER -> ZeroConfig

SaveError(io) ==
    CASE io = "ok" -> ""
      [] io = "openFailed" -> "failed to create file"
      [] OTHER -> "failed to encode as YAML"

(***************************************************************************)
(* GardenRegistry: GardenName and AddGarden.                               *)
(***************************************************************************)
NotFound == [name |-> "", err |-> "garden is not defined in gardenctl configuration"]

RECURSIVE GardenNameFrom(_, _)
\* the loop of GardenName over the remaining gardens
GardenNameFrom(gardens, nameOrAlias) ==
    IF gardens = <<>> THEN NotFound
    ELSE LET g == Head(gardens)
         IN IF g.Name = nameOrAlias THEN [name |-> g.Name, err |-> ""]
            ELSE IF contains(g.Aliases, nameOrAlias) THEN [name |-> g.Name, err |-> ""]
            ELSE GardenNameFrom(Tail(gardens), nameOrAlias)

\* a lookup that tries every name before any alias
GardenNameNamesFirst(cfg, nameOrAlias) ==
    LET gs == cfg.Gardens
        byName == {i \in 1..Len(gs) : gs[i].Name = nameOrAlias}
        byAlias == {i \in 1..Len(gs) : contains(gs[i].Aliases, nameOrAlias)}
        first(S) == CHOOSE i \in S : \A j \in S : i <= j
    IN IF byName # {} THEN [name |-> gs[first(byName)].Name, err |-> ""]
       ELSE IF byAlias # {} THEN [name |-> gs[first(byAlias)].Name, err |-> ""]
       ELSE NotFound

GardenNameOf(cfg, nameOrAlias) == GardenNameFrom(cfg.Gardens, nameOrAlias)

\* a duplicate check that looks at the first Garden only
NameExistsFirstOnly(cfg, name) ==
    Len(cfg.Gardens) > 0 /\ cfg.Gardens[1].Name = name

\* the duplicate check at the head of AddGarden
NameExists(cfg, name) == \E i \in 1..Len(cfg.Gardens) : cfg.Gardens[i].Name = name

\* aliases that are deduplicated like the match patterns are
NewAliasesDeduplicated(data) ==
    removeDuplicateStr(removeLastStrIfEmpty(Split(Lookup(data, "aliases"))))

NewAliases(data) == removeLastStrIfEmpty(Split(Lookup(data, "aliases")))

NewGarden(name, kubeconfigFile, contextName, data) ==
    Garden(name, Cat(Lookup(data, "identity")), contextName, kubeconfigFile,
           NewAliases(data))

MergedPatterns(matchPatterns, data) ==
    removeDuplicateStr(
        matchPatterns \o removeLastStrIfEmpty(Split(Lookup(data, "global.matchPatterns"))))

\* the Config after the in-memory part of AddGarden
AddedConfig(cfg, name, kubeconfigFile, contextName, data) ==
    Config(Append(cfg.Gardens, NewGarden(name, kubeconfigFile, contextName, data)),
           MergedPatterns(cfg.MatchPatterns, data))

(***************************************************************************)
(* PatternMatcher: MatchPattern over the regexp package.  The patterns of  *)
(* the model are anchored, "/"-separated groups of [a-z]+; a target is the *)
(* sequence of its runs, each a lower-case word, a "/" or a "-".           *)
(***************************************************************************)
PGarden == "^(?P<garden>[a-z]+)$"
PGardenProject == "^(?P<garden>[a-z]+)/(?P<project>[a-z]+)$"
PAnyShoot == "^([a-z]+)/(?P<shoot>[a-z]+)$"
PClusterNamespace == "^(?P<cluster>[a-z]+)/(?P<namespace>[a-z]+)$"
PMalformed == "^(?P<garden>[a-z]+"

Patterns == {PGarden, PGardenProject, PAnyShoot, PClusterNamespace, PMalformed}

Words == {"foo", "bar"}
TargetRuns == Words \cup {"/", "-"}

\* regexp.Compile: ok and the names of the groups in order ("" for a group
\* without a name), or an error
Compile(p) ==
    CASE p = PGarden -> [ok |-> TRUE, groups |-> <<"garden">>]
      [] p = PGardenProject -> [ok |-> TRUE, groups |-> <<"garden", "project">>]
      [] p = PAnyShoot -> [ok |-> TRUE, groups |-> <<"", "shoot">>]
      [] p = PClusterNamespace -> [ok |-> TRUE, groups |-> <<"cluster", "namespace">>]
      [] p = PMalformed -> [ok |-> FALSE, groups |-> <<>>]

\* r.SubexpNames(): names[0] is the whole match
SubexpNames(r) == <<"">> \o r.groups

RECURSIVE Segments(_, _)
\* the runs between the separators
Segments(runs, sep) ==
    IF \A i \in 1..Len(runs) : runs[i] # sep
    THEN <<runs>>
    ELSE LET i == CHOOSE k \in 1..Len(runs) :
                      runs[k] = sep /\ \A j \in 1..(k-1) : runs[j] # sep
         IN <<SubSeq(runs, 1, i-1)>> \o Segments(SubSeq(runs, i+1, Len(runs)), sep)

\* r.FindStringSubmatch(value): the whole match and the text of each group,
\* or nil (the empty sequence)
FindStringSubmatch(r, value) ==
    LET segs == Segments(value, "/")
    IN IF /\ Len(segs) = Len(r.groups)
          /\ \A i \in 1..Len(segs) :
                segs[i] # <<>> /\ \A k \in 1..Len(segs[i]) : segs[i][k] \in Words
       THEN <<Cat(value)>> \o [i \in 1..Len(segs) |-> Cat(segs[i])]
       ELSE <<>>

RECURSIVE Extract(_, _, _, _)
\* the loop over names with its switch, from index i on
Extract(tm, names, matches, i) ==
    IF i > Len(names) THEN tm
    ELSE Extract(CASE names[i] = "garden" -> [tm EXCEPT !.Garden = matches[i]]
                   [] names[i] = "project" -> [tm EXCEPT !.Project = matches[i]]
                   [] names[i] = "namespace" -> [tm EXCEPT !.Namespace = matches[i]]
                   [] names[i] = "shoot" -> [tm EXCEPT !.Shoot = matches[i]]
                   [] OTHER -> tm,
                 names, matches, i + 1)

ErrCompile == "failed to compile configured regular expression"
ErrNoMatch == "the provided value does not match any pattern"

RECURSIVE MatchPatternFrom(_, _)
\* the loop of MatchPattern over the remaining patterns
MatchPatternFrom(patterns, value) ==
    IF patterns = <<>> THEN [match |-> NoMatch, err |-> ErrNoMatch, pattern |-> ""]
    ELSE LET p == Head(patterns)
             r == Compile(p)
         IN IF ~r.ok THEN [match |-> NoMatch, err |-> ErrCompile, pattern |-> p]
            ELSE LET matches == FindStringSubmatch(r, value)
                 IN IF matches = <<>>
                    THEN MatchPatternFrom(Tail(patterns), value)
                    ELSE [match |-> Extract(NoMatch, SubexpNames(r), matches, 1),
                          err |-> "", pattern |-> ""]

RECURSIVE MatchPatternSkipMalformed(_, _)
\* a loop that goes on to the next pattern when one does not compile
MatchPatternSkipMalformed(cfg, value) ==
    IF cfg.MatchPatterns = <<>>
    THEN [match |-> NoMatch, err |-> ErrNoMatch, pattern |-> ""]
    ELSE LET r == Compile(Head(cfg.MatchPatterns))
             rest == [cfg EXCEPT !.MatchPatterns = Tail(cfg.MatchPatterns)]
         IN IF ~r.ok THEN MatchPatternSkipMalformed(rest, value)
            ELSE LET matches == FindStringSubmatch(r, value)
                 IN IF matches = <<>>
                    THEN MatchPatternSkipMalformed(rest, value)
                    ELSE [match |-> Extract(NoMatch, SubexpNames(r), matches, 1),
                          err |-> "", pattern |-> ""]

RECURSIVE MatchPatternLastWins(_, _)
\* a loop that does not return at the first match: a later match replaces it
MatchPatternLastWins(cfg, value) ==
    IF cfg.MatchPatterns = <<>>
    THEN [match |-> NoMatch, err |-> ErrNoMatch, pattern |-> ""]
    ELSE LET p == Head(cfg.MatchPatterns)
             r == Compile(p)
             later == MatchPatternLastWins(
                          [cfg EXCEPT !.MatchPatterns = Tail(cfg.MatchPatterns)], value)
         IN IF ~r.ok THEN [match |-> NoMatch, err |-> ErrCompile, pattern |-> p]
            ELSE LET matches == FindStringSubmatch(r, value)
                 IN IF matches = <<>> \/ later.err = ""
                    THEN later
                    ELSE [match |-> Extract(NoMatch, SubexpNames(r), matches, 1),
                          err |-> "", pattern |-> ""]

MatchPatternOf(cfg, value) == MatchPatternFrom(cfg.MatchPatterns, value)

(***************************************************************************)
(* The state machine.  config[p] is the Config a caller p holds in memory, *)
(* pc[p] where p is ("init": nothing loaded, "ready": a Config is loaded,  *)
(* "returned": a call on it has returned, "panic": the call died), file    *)
(* the persisted document.  last is the call that has just returned, with  *)
(* its arguments and its result.  synced and saved are history variables:  *)
(* synced[p] says that no other writer has replaced the file since p       *)
(* loaded it, saved[p] that the last AddGarden of p since it loaded wrote   *)
(* its Config to the file and returned nil.                                *)
(***************************************************************************)
\* what last keeps of arguments the call never looked into
Unread(cm) == [IsNil |-> cm.IsNil, Data |-> <<>>]

Call(op, p, name, args, cm, io, err, ret) ==
    [op |-> op, proc |-> p, name |-> name, args |-> args, cm |-> cm, io |-> io,
     err |-> err, ret |-> ret, value |-> <<>>, match |-> NoMatch]

NoArgs == [kube |-> "", ctx |-> ""]

ErrDuplicate == "could not add Garden: Garden already exists in config"
ErrPanic == "panic: nil pointer dereference"

NoCall == Call("none", "p1", "", NoArgs, NilConfigMap, "ok", "", "")

Init ==
    /\ config = [p \in Procs |-> ZeroConfig]
    /\ pc = [p \in Procs |-> "init"]
    /\ file = ZeroConfig
    /\ last = NoCall
    /\ synced = [p \in Procs |-> FALSE]
    /\ saved = [p \in Procs |-> FALSE]

\* an invocation starts: manager.Configuration() loads the config file
LoadFromFile(p, io) ==
    /\ io \in {"ok", "openFailed"}
    /\ IF io = "ok"
       THEN /\ config' = [config EXCEPT ![p] = LoadedConfig(file)]
            /\ pc' = [pc EXCEPT ![p] = "ready"]
            /\ synced' = [synced EXCEPT ![p] = TRUE]
            /\ last' = Call("LoadFromFile", p, "", NoArgs, NilConfigMap, io, "", "")
       ELSE /\ config' = [config EXCEPT ![p] = ZeroConfig]
            /\ pc' = [pc EXCEPT ![p] = "init"]
            /\ synced' = [synced EXCEPT ![p] = FALSE]
            /\ last' = Call("LoadFromFile", p, "", NoArgs, NilConfigMap, io,
                            "failed to open file", "")
    /\ saved' = [saved EXCEPT ![p] = FALSE]
    /\ UNCHANGED file

\* the caller goes on with the Config it holds
Continue(p) ==
    /\ pc[p] = "returned"
    /\ pc' = [pc EXCEPT ![p] = "ready"]
    /\ last' = NoCall
    /\ UNCHANGED <<config, file, synced, saved>>

GardenName(p, nameOrAlias) ==
    /\ pc[p] = "ready"
    /\ LET r == GardenNameOf(config[p], nameOrAlias)
       IN last' = Call("GardenName", p, nameOrAlias, NoArgs, NilConfigMap, "ok",
                       r.err, r.name)
    /\ pc' = [pc EXCEPT ![p] = "returned"]
    /\ UNCHANGED <<config, file, synced, saved>>

AddGarden(p, name, args, clusterConfig, io) ==
    /\ pc[p] = "ready"
    /\ IF NameExists(config[p], name)
       THEN \* returns before clusterConfig is read and before any I/O
            /\ last' = Call("AddGarden", p, name, NoArgs, Unread(clusterConfig), "ok",
                            ErrDuplicate, "")
            /\ pc' = [pc EXCEPT ![p] = "returned"]
            /\ saved' = [saved EXCEPT ![p] = FALSE]
            /\ UNCHANGED <<config, file, synced>>
       ELSE IF clusterConfig.IsNil
       THEN \* clusterConfig.Data on a nil *v1.ConfigMap
            /\ pc' = [pc EXCEPT ![p] = "panic"]
            /\ last' = Call("AddGarden", p, name, args, clusterConfig, "ok",
                            ErrPanic, "")
            /\ saved' = [saved EXCEPT ![p] = FALSE]
            /\ UNCHANGED <<config, file, synced>>
       ELSE LET cfg == AddedConfig(config[p], name, args.kube, args.ctx,
                                   clusterConfig.Data)
                f == SavedFile(cfg, file, io)
            IN /\ config' = [config EXCEPT ![p] = cfg]
               /\ file' = f
               /\ last' = Call("AddGarden", p, name, args, clusterConfig, io,
                               SaveError(io), "")
               /\ pc' = [pc EXCEPT ![p] = "returned"]
               /\ synced' = [q \in Procs |->
                               IF q = p THEN synced[p]
                               ELSE synced[q] /\ f = file]
               /\ saved' = [saved EXCEPT ![p] = (io = "ok")]

MatchPattern(p, value) ==
    /\ pc[p] = "ready"
    /\ LET r == MatchPatternOf(config[p], value)
       IN last' = [Call("MatchPattern", p, Cat(value), NoArgs, NilConfigMap, "ok",
                        r.err, r.pattern)
                      EXCEPT !.value = value, !.match = r.match]
    /\ pc' = [pc EXCEPT ![p] = "returned"]
    /\ UNCHANGED <<config, file, synced, saved>>

\* The calls and I/O outcomes that make a difference on cfg: a call with a name
\* cfg has returns before it uses its other arguments or opens the file, so
\* one call with a ConfigMap, one with nil and one outcome stand for them all.
CallsOn(cfg) ==
    {c \in AddGardenCalls :
        NameExists(cfg, c.name) =>
            c.args = CommandArgs /\ c.cm \in {NilConfigMap, ConfigMap(NoData)}}

IOOn(cfg, c) ==
    IF NameExists(cfg, c.name) \/ c.cm.IsNil THEN {"ok"} ELSE IOOutcomes

\* one user of the configuration at a time, any cluster configuration
Next ==
    \/ \E io \in IOOutcomes : LoadFromFile("p1", io)
    \/ Continue("p1")
    \/ \E n \in Names : GardenName("p1", n)
    \/ \E c \in CallsOn(config["p1"]) : \E io \in IOOn(config["p1"], c) :
          AddGarden("p1", c.name, c.args, c.cm, io)

Spec == Init /\ [][Next]_vars

\* two invocations of the add-garden command against one file, nothing
\* serializing them
RaceCalls ==
    {c \in AddGardenCalls :
        /\ c.args = CommandArgs
        /\ c.cm \in {ConfigMap(NoData), ConfigMap(MkData(<<>>, <<>>, <<"p1">>))}}

NextRace ==
    \E p \in Procs :
        \/ \E io \in IOOutcomes : LoadFromFile(p, io)
        \/ Continue(p)
        \/ \E c \in CallsOn(config[p]) \cap RaceCalls : \E io \in IOOn(config[p], c) :
              AddGarden(p, c.name, c.args, c.cm, io)

SpecRace == Init /\ [][NextRace]_vars

\* targets matched against the patterns of a config file somebody wrote
PatternLists == SeqsUpTo(Patterns, MaxPatterns)
Targets == SeqsUpTo(TargetRuns, MaxInputLen)

InitMatch ==
    /\ config = [p \in Procs |-> ZeroConfig]
    /\ pc = [p \in Procs |-> "init"]
    /\ file \in {Config(<<>>, ps) : ps \in PatternLists}
    /\ last = NoCall
    /\ synced = [p \in Procs |-> FALSE]
    /\ saved = [p \in Procs |-> FALSE]

NextMatch ==
    \/ \E io \in IOOutcomes : LoadFromFile("p1", io)
    \/ Continue("p1")
    \/ \E v \in Targets : MatchPattern("p1", v)

SpecMatch == InitMatch /\ [][NextMatch]_vars

(***************************************************************************)
(* Vocabulary of the properties.                                           *)
(***************************************************************************)
RangeOf(seq) == {seq[i] : i \in 1..Len(seq)}

NamesOf(cfg) == {cfg.Gardens[i].Name : i \in 1..Len(cfg.Gardens)}

NoDuplicates(seq) == \A i, j \in 1..Len(seq) : seq[i] = seq[j] => i = j

FirstIndex(seq, x) == CHOOSE i \in 1..Len(seq) : seq[i] = x /\ \A j \in 1..(i-1) : seq[j] # x

\* r is l without its repeated elements, in the order of first appearance
IsStableDedup(r, l) ==
    /\ NoDuplicates(r)
    /\ RangeOf(r) = RangeOf(l)
    /\ \A i, j \in 1..Len(r) : i < j => FirstIndex(l, r[i]) < FirstIndex(l, r[j])

LastGarden(cfg) == cfg.Gardens[Len(cfg.Gardens)]

\* this step is a call of AddGarden by p
AddGardenStep(p) ==
    /\ pc[p] = "ready"
    /\ pc'[p] # "ready"
    /\ last'.op = "AddGarden"
    /\ last'.proc = p

\* the call got past the duplicate check and past the reads of clusterConfig
Appended(call) == call.op = "AddGarden" /\ call.err \notin {ErrDuplicate, ErrPanic}

(***************************************************************************)
(* C1: AddGarden with a name the Config already has returns the            *)
(* duplicate-name error and changes nothing: the Config in memory (gardens *)
(* and matchPatterns) and the file are the same before and after.          *)
(***************************************************************************)
C1_DuplicateAddMutatesNothing ==
    [][\A p \in Procs :
          (AddGardenStep(p) /\ last'.name \in NamesOf(config[p])) =>
              /\ last'.err = ErrDuplicate
              /\ config' = config
              /\ file' = file]_vars

\* a duplicate add has returned on a Config that differs from the file, so a
\* Save would have shown
C1_Witness ==
    /\ last.op = "AddGarden"
    /\ last.err = ErrDuplicate
    /\ last.name \in NamesOf(config[last.proc])
    /\ config[last.proc] # file

(***************************************************************************)
(* C2: Garden names stay unique: in every Config held in memory and in the *)
(* file no two entries of the gardens list have the same name.             *)
(***************************************************************************)
C2_GardenNamesUnique ==
    /\ \A p \in Procs :
          \A i, j \in 1..Len(config[p].Gardens) :
              config[p].Gardens[i].Name = config[p].Gardens[j].Name => i = j
    /\ \A i, j \in 1..Len(file.Gardens) :
          file.Gardens[i].Name = file.Gardens[j].Name => i = j

\* a second Garden has been added, after which a duplicate add was refused
C2_Witness ==
    /\ last.op = "AddGarden"
    /\ last.err = ErrDuplicate
    /\ Len(config[last.proc].Gardens) = 2
    /\ Len(file.Gardens) = 2

(***************************************************************************)
(* C3 as stated: GardenName gives name matches priority over alias matches *)
(* across the whole document: if a Garden has the input as its name the    *)
(* result is that name; else the name of the first Garden with the input   *)
(* among its aliases; else a not-found error.                              *)
(***************************************************************************)
C3_NameMatchHasPriority ==
    last.op = "GardenName" =>
        LET gs == config[last.proc].Gardens
            byAlias == {i \in 1..Len(gs) : last.name \in RangeOf(gs[i].Aliases)}
        IN IF last.name \in NamesOf(config[last.proc])
           THEN last.err = "" /\ last.ret = last.name
           ELSE IF byAlias # {}
           THEN /\ last.err = ""
                /\ \E i \in byAlias : last.ret = gs[i].Name /\ \A j \in byAlias : i <= j
           ELSE last.err # "" /\ last.ret = ""

(***************************************************************************)
(* C3 amended: GardenName returns the name of the first Garden, in         *)
(* document order, whose name equals the input or whose aliases contain    *)
(* it, so an earlier Garden that has the input as an alias wins over a     *)
(* later Garden that has it as its name; when no Garden matches either way *)
(* a not-found error is returned.                                          *)
(***************************************************************************)
C3_FirstNameOrAliasMatch ==
    last.op = "GardenName" =>
        LET gs == config[last.proc].Gardens
            hits == {i \in 1..Len(gs) :
                        gs[i].Name = last.name \/ last.name \in RangeOf(gs[i].Aliases)}
        IN IF hits = {} THEN last.err # "" /\ last.ret = ""
           ELSE /\ last.err = ""
                /\ \E i \in hits : last.ret = gs[i].Name /\ \A j \in hits : i <= j

\* the input is the name of the second Garden and an alias of the first, and
\* the first Garden's name came back
C3_Witness ==
    /\ last.op = "GardenName"
    /\ Len(config[last.proc].Gardens) = 2
    /\ config[last.proc].Gardens[2].Name = last.name
    /\ last.name \in RangeOf(config[last.proc].Gardens[1].Aliases)
    /\ last.ret = config[last.proc].Gardens[1].Name
    /\ last.ret # last.name

\* the lines a ConfigMap value contributes
LinesOf(call, key) == removeLastStrIfEmpty(Split(Lookup(call.cm.Data, key)))

(***************************************************************************)
(* C4: after every successful AddGarden the matchPatterns list holds no    *)
(* string twice and is the order-preserving deduplication of the previous  *)
(* matchPatterns followed by the newline-split patterns of                 *)
(* clusterConfig.Data["global.matchPatterns"]; a call that contributes     *)
(* "p1\np2" to a Config that already holds [p1, p2] leaves [p1, p2].       *)
(***************************************************************************)
C4_MatchPatternsDeduplicated ==
    [][\A p \in Procs :
          (AddGardenStep(p) /\ last'.err = "") =>
              LET combined == config[p].MatchPatterns
                                  \o LinesOf(last', "global.matchPatterns")
              IN /\ IsStableDedup(config'[p].MatchPatterns, combined)
                 /\ (/\ config[p].MatchPatterns = <<"p1", "p2">>
                     /\ last'.cm.Data = MkData(<<>>, <<>>, <<"p1", NL, "p2">>))
                        => config'[p].MatchPatterns = <<"p1", "p2">>]_vars

\* the second Garden has been added with "p1\np2" and the list is [p1, p2]
C4_Witness ==
    /\ last.op = "AddGarden"
    /\ last.err = ""
    /\ last.cm.Data = MkData(<<>>, <<>>, <<"p1", NL, "p2">>)
    /\ Len(config[last.proc].Gardens) = 2
    /\ config[last.proc].MatchPatterns = <<"p1", "p2">>
    /\ file = config[last.proc]

(***************************************************************************)
(* C5 as stated: the aliases of a Garden created by AddGarden are          *)
(* deduplicated: the stored aliases contain no string twice.               *)
(***************************************************************************)
C5_AliasesDeduplicated ==
    Appended(last) => NoDuplicates(LastGarden(config[last.proc]).Aliases)

(***************************************************************************)
(* C5 amended: the aliases of a Garden created by AddGarden keep the order *)
(* of clusterConfig.Data["aliases"] and are not deduplicated: they are the *)
(* newline-separated values of it, one trailing empty value dropped, with  *)
(* every repeated value kept ("b\nb" yields [b, b]).                       *)
(***************************************************************************)
C5_AliasesKeepRepeats ==
    Appended(last) =>
        /\ LastGarden(config[last.proc]).Aliases = LinesOf(last, "aliases")
        /\ last.cm.Data = MkData(<<"b", NL, "b">>, <<>>, <<>>)
              => LastGarden(config[last.proc]).Aliases = <<"b", "b">>

\* a Garden has been added from "b\nb" and holds the alias b twice
C5_Witness ==
    /\ Appended(last)
    /\ last.err = ""
    /\ last.cm.Data = MkData(<<"b", NL, "b">>, <<>>, <<>>)
    /\ LastGarden(config[last.proc]).Aliases = <<"b", "b">>
    /\ file = config[last.proc]

(***************************************************************************)
(* C6 as stated: AddGarden succeeds when the cluster configuration is      *)
(* absent (nil): the new Garden is appended with empty identity and empty  *)
(* aliases, matchPatterns is unchanged, the document is saved, and the     *)
(* call neither crashes nor returns an error because of the missing        *)
(* metadata.                                                               *)
(***************************************************************************)
C6_AbsentMetadataSucceeds ==
    (last.op = "AddGarden" /\ last.cm.IsNil /\ last.err # ErrDuplicate) =>
        /\ pc[last.proc] # "panic"
        /\ last.err = SaveError(last.io)
        /\ Len(config[last.proc].Gardens) > 0
        /\ LastGarden(config[last.proc]).Name = last.name
        /\ LastGarden(config[last.proc]).Identity = ""
        /\ LastGarden(config[last.proc]).Aliases = <<>>
        /\ last.io = "ok" => file = config[last.proc]

C10_LaterSaveWins ==
    [][\A p \in Procs :
          (AddGardenStep(p) /\ last'.err = "") =>
              /\ file' = config'[p]
              /\ NamesOf(file') = NamesOf(config[p]) \cup {last'.name}
              /\ synced[p] => NamesOf(file) \subseteq NamesOf(file')]_vars

\* the lost update: both callers' AddGarden returned nil, with distinct names,
\* and the file is the Config of the one that saved later, without the Garden
\* of the other
C10_Witness ==
    \E p, q \in Procs :
        /\ p # q
        /\ saved[p] /\ saved[q]
        /\ last.op = "AddGarden" /\ last.proc = p /\ last.err = ""
        /\ file = config[p]
        /\ NamesOf(config[q]) # {}
        /\ NamesOf(config[q]) \cap NamesOf(file) = {}
        /\ last.name \notin NamesOf(config[q])

(***************************************************************************)
(* Vocabulary of the pattern properties.                                   *)
(***************************************************************************)
\* pattern i of the list compiles and matches the target
Hits(patterns, value, i) ==
    Compile(patterns[i]).ok /\ FindStringSubmatch(Compile(patterns[i]), value) # <<>>

\* the capture of the group called key in pattern pat, "" without one
CaptureOf(pat, value, key) ==
    LET names == Compile(pat).groups
        segs == Segments(value, "/")
    IN IF \E i \in 1..Len(names) : names[i] = key
       THEN Cat(segs[CHOOSE i \in 1..Len(names) : names[i] = key])
       ELSE ""

ExpectedMatch(pat, value) ==
    [Garden |-> CaptureOf(pat, value, "garden"),
     Project |-> CaptureOf(pat, value, "project"),
     Namespace |-> CaptureOf(pat, value, "namespace"),
     Shoot |-> CaptureOf(pat, value, "shoot")]

Malformed(patterns) == {i \in 1..Len(patterns) : ~Compile(patterns[i]).ok}

(***************************************************************************)
(* C7: MatchPattern takes the patterns in list order and the first one     *)
(* that matches decides the result: the garden, project, namespace and     *)
(* shoot fields are the captures of its groups of these names (groups with *)
(* other names or none ignored, fields without a group empty), later       *)
(* patterns do not matter; with an empty list or no matching pattern the   *)
(* no-match error is returned.  With [PGarden, PGardenProject], "foo/bar"  *)
(* gives {garden: foo, project: bar} and "foo" gives {garden: foo}.        *)
(***************************************************************************)
C7_FirstMatchWins ==
    last.op = "MatchPattern" =>
        LET ps == config[last.proc].MatchPatterns
            v == last.value
            hits == {i \in 1..Len(ps) : Hits(ps, v, i)}
            bad == Malformed(ps)
        IN /\ \A i \in hits :
                 (\A j \in 1..(i-1) : j \notin hits /\ j \notin bad) =>
                     last.err = "" /\ last.match = ExpectedMatch(ps[i], v)
           /\ (hits = {} /\ bad = {}) =>
                 last.err = ErrNoMatch /\ last.match = NoMatch
           /\ (ps = <<PGarden, PGardenProject>> /\ v = <<"foo", "/", "bar">>) =>
                 last.match = [NoMatch EXCEPT !.Garden = "foo", !.Project = "bar"]
           /\ (ps = <<PGarden, PGardenProject>> /\ v = <<"foo">>) =>
                 last.match = [NoMatch EXCEPT !.Garden = "foo"]

\* two patterns match the target with different captures and the result is
\* that of the first
C7_Witness ==
    /\ last.op = "MatchPattern"
    /\ last.err = ""
    /\ LET ps == config[last.proc].MatchPatterns
       IN /\ Len(ps) = 2
          /\ Hits(ps, last.value, 1) /\ Hits(ps, last.value, 2)
          /\ ExpectedMatch(ps[1], last.value) # ExpectedMatch(ps[2], last.value)
          /\ last.match = ExpectedMatch(ps[1], last.value)
          /\ last.match # NoMatch

(***************************************************************************)
(* C8: a malformed pattern that the iteration reaches (every pattern       *)
(* before it compiled and did not match) makes MatchPattern fail with the  *)
(* compile error naming that pattern, even if a later pattern matches; a   *)
(* malformed pattern after the first matching pattern is never compiled    *)
(* and the match succeeds.                                                 *)
(***************************************************************************)
C8_MalformedPatternAborts ==
    last.op = "MatchPattern" =>
        LET ps == config[last.proc].MatchPatterns
            v == last.value
            reached(i) == \A j \in 1..(i-1) : Compile(ps[j]).ok /\ ~Hits(ps, v, j)
        IN \A i \in 1..Len(ps) :
              /\ (i \in Malformed(ps) /\ reached(i)) =>
                    last.err = ErrCompile /\ last.ret = ps[i] /\ last.match = NoMatch
              /\ (Hits(ps, v, i) /\ reached(i)) => last.err = ""

\* the malformed pattern comes first, the pattern after it matches the
\* target, and the compile error came back
C8_Witness ==
    /\ last.op = "MatchPattern"
    /\ last.err = ErrCompile
    /\ last.ret = PMalformed
    /\ LET ps == config[last.proc].MatchPatterns
       IN /\ Len(ps) = 2
          /\ ps[1] = PMalformed
          /\ Hits(ps, last.value, 2)

(***************************************************************************)
(* Vocabulary of C11.                                                      *)
(***************************************************************************)
RECURSIVE JoinLines(_)
\* the strings of a list with "\n" between them
JoinLines(list) ==
    IF list = <<>> THEN ""
    ELSE IF Len(list) = 1 THEN list[1]
    ELSE list[1] \o NL \o JoinLines(Tail(list))

\* list is the string text split on newlines with exactly one trailing empty
\* element dropped: no element holds a newline, and either the elements
\* joined are the text and the last one is not empty, or the elements and
\* one more empty element joined are the text
IsSplitMinusOneEmpty(list, text) ==
    /\ \A i \in 1..Len(list) : list[i] \in AliasLines \cup {""}
    /\ IF list = <<>> THEN text = ""
       ELSE \/ JoinLines(list) = text /\ list[Len(list)] # ""
            \/ JoinLines(list) \o NL = text

AliasesValue(call) == Lookup(call.cm.Data, "aliases")

(***************************************************************************)
(* C11: a successful AddGarden appends exactly one Garden at the end of    *)
(* the gardens list and leaves the entries before it and their order as    *)
(* they were; the new entry has the name, kubeconfig path and context of   *)
(* the call, identity = Data["identity"] and aliases = Data["aliases"]     *)
(* split on newlines with exactly one trailing empty element dropped:      *)
(* "a\nb\n" and "a\nb" give [a, b], "" gives the empty list, "a\n\n" gives *)
(* [a, ""].                                                                *)
(***************************************************************************)
C11_AppendsOneGarden ==
    [][\A p \in Procs :
          (AddGardenStep(p) /\ last'.err = "") =>
              LET old == config[p].Gardens
                  new == config'[p].Gardens
                  g == new[Len(new)]
                  data == last'.cm.Data
                  al == AliasesValue(last')
              IN /\ Len(new) = Len(old) + 1
                 /\ \A i \in 1..Len(old) : new[i] = old[i]
                 /\ g.Name = last'.name
                 /\ g.Kubeconfig = last'.args.kube
                 /\ g.Context = last'.args.ctx
                 /\ g.Identity = (IF "identity" \in DOMAIN data
                                  THEN Cat(data["identity"]) ELSE "")
                 /\ IsSplitMinusOneEmpty(g.Aliases, Cat(al))
                 /\ al \in {<<"a", NL, "b", NL>>, <<"a", NL, "b">>}
                       => g.Aliases = <<"a", "b">>
                 /\ al = <<>> => g.Aliases = <<>>
                 /\ al = <<"a", NL, NL>> => g.Aliases = <<"a", "">>]_vars

\* a second Garden has been added from "a\n\n": it is the last entry, with
\* the aliases [a, ""], after a first entry that has an identity and aliases
C11_Witness ==
    /\ last.op = "AddGarden"
    /\ last.err = ""
    /\ AliasesValue(last) = <<"a", NL, NL>>
    /\ Len(config[last.proc].Gardens) = 2
    /\ LastGarden(config[last.proc]).Name = last.name
    /\ LastGarden(config[last.proc]).Aliases = <<"a", "">>
    /\ config[last.proc].Gardens[1].Identity = "id1"
    /\ config[last.proc].Gardens[1].Aliases = <<"b">>
    /\ file = config[last.proc]

====
